---------------------------- MODULE Spec2Model ----------------------------
(***************************************************************************)
(* Model of codificador_universal.py: the CodificadorUniversal codec       *)
(* (parameter validation, block segmentation, the base-2 window codec, the *)
(* base-5 positional codec, whole-stream codificar/decodificar) and the    *)
(* AnalizadorEficiencia integrity check.                                   *)
(*                                                                         *)
(* Python values:                                                          *)
(*   - a bit string (str of '0'/'1') is a sequence over {0, 1};            *)
(*   - a Python int that the code treats as a number of arbitrary size     *)
(*     (potencia, the value of a block, a window, a residue) is its        *)
(*     binary numeral: the sequence bin(v)[2:], most significant bit       *)
(*     first, without leading zeros, <<0>> for zero.  The allowed powers   *)
(*     2**32 and 2**64 and the block values do not fit the integers of     *)
(*     the model checker, so the arithmetic the code uses on them          *)
(*     (&, |, <<, >>, +, -, *, **, //, %) is defined on numerals below;    *)
(*   - lengths, indices, base and bits_por_bloque are integers.            *)
(***************************************************************************)
EXTENDS Integers, Sequences, FiniteSets, TLC

VARIABLES
    codec,              \* the caller's CodificadorUniversal object, or Ninguno
    llamada,            \* the last call made: operation and arguments
    retorno,            \* what that call returned, or the exception it raised
    datos_binarios,     \* the caller's original bit string (argument of the last codificar)
    datos_codificados,  \* the caller's encoded dict (result of the last codificar)
    decodificados       \* decodificar's local list bloques_decodificados when the call ended

vars == <<codec, llamada, retorno, datos_binarios, datos_codificados, decodificados>>

-----------------------------------------------------------------------------
(* Bit strings *)

Bit == {0, 1}

\* '0' * n
Ceros(n) == [i \in 1..n |-> 0]

\* '1' * n
Unos(n) == [i \in 1..n |-> 1]

\* s[a:b] for 0 <= a, with Python's clamping of b to len(s)
Rebanada(s, a, b) ==
    LET fin == IF b < Len(s) THEN b ELSE Len(s)
    IN  IF a >= fin THEN <<>> ELSE SubSeq(s, a + 1, fin)

\* s.zfill(n)
zfill(s, n) == IF Len(s) >= n THEN s ELSE Ceros(n - Len(s)) \o s

\* ''.join(lista)
RECURSIVE join(_)
join(lista) == IF lista = <<>> THEN <<>> ELSE Head(lista) \o join(Tail(lista))

-----------------------------------------------------------------------------
(* Python ints as binary numerals.  The bit operations work on the bits;   *)
(* +, -, *, //, % work on the numeral cut into limbs of 10 bits (digits in *)
(* base 1024, most significant first), each limb an integer.               *)
(*                                                                         *)
(* Python executes an assignment before the statement that follows it.  In *)
(* the loops below the value assigned in one iteration is named in a LET   *)
(* and the next iteration is taken under a CASE that states what kind of   *)
(* value it is (a numeral is never empty, a list has one more element), so *)
(* that the value is computed at that point, as in the code.               *)

Cero == <<0>>
Uno == <<1>>

\* the numeral without its leading zeros
Normal(s) ==
    LET unos == {i \in 1..Len(s) : s[i] = 1}
    IN  IF unos = {} THEN Cero
        ELSE SubSeq(s, CHOOSE i \in unos : \A j \in unos : i <= j, Len(s))

\* int(s, 2) for a non-empty s (int('', 2) raises ValueError: see the callers)
int2(s) == Normal(s)

\* bin(v)[2:]
bin(v) == v

\* v.bit_length()
bit_length(v) == IF v = Cero THEN 0 ELSE Len(v)

\* the numeral of a small integer n >= 0
RECURSIVE Numeral(_)
Numeral(n) == IF n < 2 THEN <<n>> ELSE Numeral(n \div 2) \o <<n % 2>>

\* 2 ** e
DosElevado(e) == <<1>> \o Ceros(e)

\* bit i of s counted from the right (1 = least significant), 0 beyond its length
BitDer(s, i) == IF i > Len(s) THEN 0 ELSE s[Len(s) - i + 1]

Maximo(x, y) == IF x >= y THEN x ELSE y
Minimo(x, y) == IF x <= y THEN x ELSE y

\* a & b
And(a, b) ==
    LET n == Minimo(Len(a), Len(b))
    IN  Normal([i \in 1..n |->
                   IF BitDer(a, n - i + 1) = 1 /\ BitDer(b, n - i + 1) = 1 THEN 1 ELSE 0])

\* a | b
Or(a, b) ==
    LET n == Maximo(Len(a), Len(b))
    IN  Normal([i \in 1..n |->
                   IF BitDer(a, n - i + 1) = 1 \/ BitDer(b, n - i + 1) = 1 THEN 1 ELSE 0])

\* a >> k
ShiftR(a, k) == IF Len(a) <= k THEN Cero ELSE SubSeq(a, 1, Len(a) - k)

\* a << k
ShiftL(a, k) == IF a = Cero THEN Cero ELSE a \o Ceros(k)

\* the integer a limb of exactly 10 bits stands for
ValorLimb(b) == 512 * b[1] + 256 * b[2] + 128 * b[3] + 64 * b[4] + 32 * b[5]
                + 16 * b[6] + 8 * b[7] + 4 * b[8] + 2 * b[9] + b[10]

\* the 10 bits of a limb 0 <= x < 1024
BitsLimb(x) ==
    <<(x \div 512) % 2, (x \div 256) % 2, (x \div 128) % 2, (x \div 64) % 2,
      (x \div 32) % 2, (x \div 16) % 2, (x \div 8) % 2, (x \div 4) % 2,
      (x \div 2) % 2, x % 2>>

\* the limbs of a numeral, most significant first
Limbs(v) ==
    LET n == (Len(v) + 9) \div 10
        z == zfill(v, 10 * n)
    IN  [k \in 1..n |-> ValorLimb(SubSeq(z, 10 * (k - 1) + 1, 10 * k))]

\* the numeral of a sequence of limbs
DeLimbs(l) ==
    Normal([i \in 1..(10 * Len(l)) |->
               BitsLimb(l[((i - 1) \div 10) + 1])[((i - 1) % 10) + 1]])

\* limb i of l counted from the right, 0 beyond its length
LimbDer(l, i) == IF i > Len(l) THEN 0 ELSE l[Len(l) - i + 1]

\* the integer of a numeral below 2 ** 30
Entero(v) ==
    LET l == Limbs(v)
    IN  LimbDer(l, 3) * 1048576 + LimbDer(l, 2) * 1024 + LimbDer(l, 1)

\* a + b
RECURSIVE SumaLimbs(_, _, _, _, _)
SumaLimbs(la, lb, i, n, acarreo) ==
    IF i > n THEN (IF acarreo > 0 THEN <<acarreo>> ELSE <<>>)
    ELSE LET s == LimbDer(la, i) + LimbDer(lb, i) + acarreo
         IN  SumaLimbs(la, lb, i + 1, n, s \div 1024) \o <<s % 1024>>
Suma(a, b) ==
    LET la == Limbs(a)
        lb == Limbs(b)
    IN  DeLimbs(SumaLimbs(la, lb, 1, Maximo(Len(la), Len(lb)), 0))

\* a - b for a >= b
RECURSIVE RestaLimbs(_, _, _, _, _)
RestaLimbs(la, lb, i, n, prestamo) ==
    IF i > n THEN <<>>
    ELSE LET d == LimbDer(la, i) - LimbDer(lb, i) - prestamo
         IN  RestaLimbs(la, lb, i + 1, n, IF d < 0 THEN 1 ELSE 0)
                 \o <<IF d < 0 THEN d + 1024 ELSE d>>
Resta(a, b) ==
    LET la == Limbs(a)
        lb == Limbs(b)
    IN  DeLimbs(RestaLimbs(la, lb, 1, Len(la), 0))

\* a * m for an integer 0 <= m < 2 ** 20
RECURSIVE PorEnteroLimbs(_, _, _, _)
PorEnteroLimbs(la, m, i, acarreo) ==
    IF i > Len(la) THEN (IF acarreo > 0 THEN Limbs(Numeral(acarreo)) ELSE <<>>)
    ELSE LET s == LimbDer(la, i) * m + acarreo
         IN  PorEnteroLimbs(la, m, i + 1, s \div 1024) \o <<s % 1024>>
PorEntero(a, m) == DeLimbs(PorEnteroLimbs(Limbs(a), m, 1, 0))

\* a * b: the sum over the limbs of b of a times the limb, shifted to its place
RECURSIVE ProductoLimbs(_, _, _)
ProductoLimbs(a, lb, j) ==
    IF j > Len(lb) THEN Cero
    ELSE LET resto == ProductoLimbs(a, lb, j + 1)
         IN  CASE resto # <<>> ->
                  Suma(ShiftL(PorEntero(a, LimbDer(lb, j)), 10 * (j - 1)), resto)
Producto(a, b) == ProductoLimbs(a, Limbs(b), 1)

\* a ** n for an integer n >= 0
RECURSIVE Potencia(_, _)
Potencia(a, n) ==
    IF n = 0 THEN Uno
    ELSE LET anterior == Potencia(a, n - 1)
         IN  CASE anterior # <<>> -> Producto(a, anterior)

\* divmod(a, d) for an integer divisor 0 < d < 2 ** 20, by long division over
\* the limbs of a: <<the limbs of a // d, a % d>>
RECURSIVE DivModLimbs(_, _, _, _, _)
DivModLimbs(la, d, k, q, r) ==
    IF k > Len(la) THEN <<q, r>>
    ELSE LET actual == r * 1024 + la[k]
         IN  DivModLimbs(la, d, k + 1, Append(q, actual \div d), actual % d)

\* a // d and a % d; the divisor is below 2 ** 20 (the code divides by
\* potencia in the base-5 codec only, where potencia <= 625)
Cociente(a, d) == DeLimbs(DivModLimbs(Limbs(a), Entero(d), 1, <<>>, 0)[1])
Residuo(a, d) == Numeral(DivModLimbs(Limbs(a), Entero(d), 1, <<>>, 0)[2])

-----------------------------------------------------------------------------
(* Values passed between the caller and the program.  Every value carries   *)
(* its Python type in the field tipo.                                       *)

Ninguno == [tipo |-> "None"]

Objeto(base, potencia, bits_por_bloque) ==
    [tipo |-> "CodificadorUniversal", base |-> base, potencia |-> potencia,
     bits_por_bloque |-> bits_por_bloque]

Excepcion(clase, mensaje) == [tipo |-> clase, mensaje |-> mensaje]

Cadena(bits) == [tipo |-> "str", valor |-> bits]

Lista(valores) == [tipo |-> "list", valor |-> valores]

EsExcepcion(r) == r.tipo \in {"ConfiguracionInvalidaError", "ValueError"}

\* the elements of a Python list
Elementos(lista) == {lista[i] : i \in 1..Len(lista)}

-----------------------------------------------------------------------------
(* class CodificadorUniversal: class attributes and __init__ *)

POTENCIAS_BASE_2 ==
    <<DosElevado(1), DosElevado(2), DosElevado(4), DosElevado(8),
      DosElevado(16), DosElevado(32), DosElevado(64)>>

POTENCIAS_BASE_5 == <<Numeral(5), Numeral(25), Numeral(125), Numeral(625)>>

BITS_MINIMO == 10

BITS_MAXIMO == 1000

MSG_BASE == "Base no permitida. Solo se permiten bases 2 y 5."
MSG_POTENCIA_2 == "Potencia no permitida para base 2."
MSG_POTENCIA_5 == "Potencia no permitida para base 5."
MSG_BLOQUE == "Tamano de bloque fuera de rango."

\* the constructor with a strict lower limit on the block size
CodificadorUniversal_minimo_estricto(base, potencia, bits_por_bloque) ==
    IF base \notin {2, 5}
    THEN Excepcion("ConfiguracionInvalidaError", MSG_BASE)
    ELSE IF base = 2 /\ potencia \notin Elementos(POTENCIAS_BASE_2)
    THEN Excepcion("ConfiguracionInvalidaError", MSG_POTENCIA_2)
    ELSE IF base = 5 /\ potencia \notin Elementos(POTENCIAS_BASE_5)
    THEN Excepcion("ConfiguracionInvalidaError", MSG_POTENCIA_5)
    ELSE IF ~(BITS_MINIMO < bits_por_bloque /\ bits_por_bloque <= BITS_MAXIMO)
    THEN Excepcion("ConfiguracionInvalidaError", MSG_BLOQUE)
    ELSE Objeto(base, potencia, bits_por_bloque)

\* the constructor without the upper limit on the block size
CodificadorUniversal_sin_maximo(base, potencia, bits_por_bloque) ==
    IF base \notin {2, 5}
    THEN Excepcion("ConfiguracionInvalidaError", MSG_BASE)
    ELSE IF base = 2 /\ potencia \notin Elementos(POTENCIAS_BASE_2)
    THEN Excepcion("ConfiguracionInvalidaError", MSG_POTENCIA_2)
    ELSE IF base = 5 /\ potencia \notin Elementos(POTENCIAS_BASE_5)
    THEN Excepcion("ConfiguracionInvalidaError", MSG_POTENCIA_5)
    ELSE IF ~(BITS_MINIMO <= bits_por_bloque)
    THEN Excepcion("ConfiguracionInvalidaError", MSG_BLOQUE)
    ELSE Objeto(base, potencia, bits_por_bloque)

\* CodificadorUniversal(base, potencia, bits_por_bloque): the new object, or
\* the ConfiguracionInvalidaError raised by the first validation that fails
CodificadorUniversal(base, potencia, bits_por_bloque) ==
    IF base \notin {2, 5}
    THEN Excepcion("ConfiguracionInvalidaError", MSG_BASE)
    ELSE IF base = 2 /\ potencia \notin Elementos(POTENCIAS_BASE_2)
    THEN Excepcion("ConfiguracionInvalidaError", MSG_POTENCIA_2)
    ELSE IF base = 5 /\ potencia \notin Elementos(POTENCIAS_BASE_5)
    THEN Excepcion("ConfiguracionInvalidaError", MSG_POTENCIA_5)
    ELSE IF ~(BITS_MINIMO <= bits_por_bloque /\ bits_por_bloque <= BITS_MAXIMO)
    THEN Excepcion("ConfiguracionInvalidaError", MSG_BLOQUE)
    ELSE Objeto(base, potencia, bits_por_bloque)

-----------------------------------------------------------------------------
(* CodificadorUniversal.binario_a_bloques *)

\* the for loop over i in range(0, len(datos_binarios), bits_por_bloque),
\* carrying the locals bloques and bits_padding
RECURSIVE bucle_bloques(_, _, _, _, _)
bucle_bloques(self, datos, i, bloques, bits_padding) ==
    IF i >= Len(datos) THEN <<bloques, bits_padding>>
    ELSE LET bloque == Rebanada(datos, i, i + self.bits_por_bloque)
             pad == self.bits_por_bloque - Len(bloque)
             siguientes == IF Len(bloque) < self.bits_por_bloque
                           THEN Append(bloques, bloque \o Ceros(pad))
                           ELSE Append(bloques, bloque)
         IN  CASE Len(siguientes) = Len(bloques) + 1 ->
                  bucle_bloques(self, datos, i + self.bits_por_bloque, siguientes,
                                IF Len(bloque) < self.bits_por_bloque
                                THEN pad ELSE bits_padding)

\* binario_a_bloques computing the padding without the test on the length of
\* the block: a full last block reports bits_por_bloque
binario_a_bloques_relleno_sin_condicion(self, datos) ==
    LET r == bucle_bloques(self, datos, 0, <<>>, 0)
    IN  IF r[1] # <<>> /\ r[2] = 0 THEN <<r[1], self.bits_por_bloque>> ELSE r

\* binario_a_bloques that reports the padding and leaves the last block short
binario_a_bloques_sin_rellenar(self, datos) ==
    LET r == bucle_bloques(self, datos, 0, <<>>, 0)
    IN  IF r[2] > 0
        THEN <<[k \in 1..Len(r[1]) |->
                   IF k = Len(r[1])
                   THEN SubSeq(r[1][k], 1, self.bits_por_bloque - r[2])
                   ELSE r[1][k]], r[2]>>
        ELSE r

\* binario_a_bloques adding a whole block of padding after a full last block
binario_a_bloques_relleno_completo(self, datos) ==
    LET r == bucle_bloques(self, datos, 0, <<>>, 0)
    IN  IF r[1] # <<>> /\ r[2] = 0
        THEN <<Append(r[1], Ceros(self.bits_por_bloque)), self.bits_por_bloque>>
        ELSE r

\* returns the tuple <<bloques, bits_padding>>
binario_a_bloques(self, datos) ==
    bucle_bloques(self, datos, 0, <<>>, 0)

-----------------------------------------------------------------------------
(* The block codecs *)

\* the while loop of codificar_bloque_base2: windows of valor_actual, least
\* significant first
RECURSIVE bucle_ventanas(_, _, _, _)
bucle_ventanas(valor_actual, mascara, bits_ventana, ventanas) ==
    IF valor_actual = Cero THEN ventanas
    ELSE LET siguientes == Append(ventanas, And(valor_actual, mascara))
         IN  CASE Len(siguientes) = Len(ventanas) + 1 ->
                  bucle_ventanas(ShiftR(valor_actual, bits_ventana), mascara,
                                 bits_ventana, siguientes)

\* codificar_bloque_base2 with one more window, of value 0, after the last
codificar_bloque_base2_ventana_de_mas(self, bloque_binario) ==
    LET valor_decimal == int2(bloque_binario)
        bits_ventana == bit_length(self.potencia) - 1
        mascara == Resta(self.potencia, Uno)
        ventanas == bucle_ventanas(valor_decimal, mascara, bits_ventana, <<>>)
    IN  IF ventanas = <<>> THEN <<Cero>> ELSE Append(ventanas, Cero)

\* codificar_bloque_base2 without the case of no windows
codificar_bloque_base2_sin_cero(self, bloque_binario) ==
    bucle_ventanas(int2(bloque_binario), Resta(self.potencia, Uno),
                   bit_length(self.potencia) - 1, <<>>)

codificar_bloque_base2(self, bloque_binario) ==
    LET valor_decimal == int2(bloque_binario)
        bits_ventana == bit_length(self.potencia) - 1
        mascara == Resta(self.potencia, Uno)
        ventanas == bucle_ventanas(valor_decimal, mascara, bits_ventana, <<>>)
    IN  IF ventanas = <<>> THEN <<Cero>> ELSE ventanas

\* the while loop of codificar_bloque_base5: successive division by potencia
RECURSIVE bucle_residuos(_, _, _)
bucle_residuos(cociente, potencia, residuos) ==
    IF cociente = Cero THEN residuos
    ELSE LET siguientes == Append(residuos, Residuo(cociente, potencia))
         IN  CASE Len(siguientes) = Len(residuos) + 1 ->
                  bucle_residuos(Cociente(cociente, potencia), potencia, siguientes)

\* codificar_bloque_base5 returning the residuos most significant first
codificar_bloque_base5_invertida(self, bloque_binario) ==
    LET valor_decimal == int2(bloque_binario)
        residuos == bucle_residuos(valor_decimal, self.potencia, <<>>)
    IN  IF residuos = <<>> THEN <<Cero>>
        ELSE [i \in 1..Len(residuos) |-> residuos[Len(residuos) - i + 1]]

codificar_bloque_base5(self, bloque_binario) ==
    LET valor_decimal == int2(bloque_binario)
        residuos == bucle_residuos(valor_decimal, self.potencia, <<>>)
    IN  IF residuos = <<>> THEN <<Cero>> ELSE residuos

\* the for loop of decodificar_bloque_base2 over enumerate(valores); idx is
\* kept 1-based here, so the shift is (idx - 1) * bits_ventana
RECURSIVE bucle_reconstruir2(_, _, _, _)
bucle_reconstruir2(valores, idx, bits_ventana, valor_reconstruido) ==
    IF idx > Len(valores) THEN valor_reconstruido
    ELSE LET siguiente == Or(valor_reconstruido,
                             ShiftL(valores[idx], (idx - 1) * bits_ventana))
         IN  CASE siguiente # <<>> ->
                  bucle_reconstruir2(valores, idx + 1, bits_ventana, siguiente)

\* decodificar_bloque_base2 without zfill
decodificar_bloque_base2_sin_zfill(self, valores) ==
    LET bits_ventana == bit_length(self.potencia) - 1
        valor_reconstruido == bucle_reconstruir2(valores, 1, bits_ventana, Cero)
    IN  IF valor_reconstruido = Cero THEN Ceros(self.bits_por_bloque)
        ELSE bin(valor_reconstruido)

\* decodificar_bloque_base2 joining the ventanas without shifting them
decodificar_bloque_base2_sin_desplazar(self, valores) ==
    LET valor_reconstruido == bucle_reconstruir2(valores, 1, 0, Cero)
    IN  IF valor_reconstruido = Cero THEN Ceros(self.bits_por_bloque)
        ELSE zfill(bin(valor_reconstruido), self.bits_por_bloque)

decodificar_bloque_base2(self, valores) ==
    LET bits_ventana == bit_length(self.potencia) - 1
        valor_reconstruido == bucle_reconstruir2(valores, 1, bits_ventana, Cero)
    IN  IF valor_reconstruido = Cero THEN Ceros(self.bits_por_bloque)
        ELSE zfill(bin(valor_reconstruido), self.bits_por_bloque)

\* the for loop of decodificar_bloque_base5 over enumerate(residuos)
RECURSIVE bucle_reconstruir5(_, _, _, _)
bucle_reconstruir5(residuos, idx, potencia, valor_reconstruido) ==
    IF idx > Len(residuos) THEN valor_reconstruido
    ELSE LET contribucion == Producto(residuos[idx], Potencia(potencia, idx - 1))
             siguiente == Suma(valor_reconstruido, contribucion)
         IN  CASE siguiente # <<>> ->
                  bucle_reconstruir5(residuos, idx + 1, potencia, siguiente)

\* decodificar_bloque_base5 without zfill
decodificar_bloque_base5_sin_zfill(self, residuos) ==
    LET valor_reconstruido == bucle_reconstruir5(residuos, 1, self.potencia, Cero)
    IN  IF valor_reconstruido = Cero THEN Ceros(self.bits_por_bloque)
        ELSE bin(valor_reconstruido)

decodificar_bloque_base5(self, residuos) ==
    LET valor_reconstruido == bucle_reconstruir5(residuos, 1, self.potencia, Cero)
    IN  IF valor_reconstruido = Cero THEN Ceros(self.bits_por_bloque)
        ELSE zfill(bin(valor_reconstruido), self.bits_por_bloque)

-----------------------------------------------------------------------------
(* CodificadorUniversal.codificar and CodificadorUniversal.decodificar *)

\* the for loop of codificar over enumerate(bloques, 1)
RECURSIVE bucle_codificar(_, _, _, _)
bucle_codificar(self, bloques, idx, bloques_codificados) ==
    IF idx > Len(bloques) THEN bloques_codificados
    ELSE LET valores == IF self.base = 2
                        THEN codificar_bloque_base2(self, bloques[idx])
                        ELSE codificar_bloque_base5(self, bloques[idx])
             siguientes == Append(bloques_codificados, valores)
         IN  CASE Len(siguientes) = idx ->
                  bucle_codificar(self, bloques, idx + 1, siguientes)

\* codificar appending the encoded blocks last block first
codificar_bloques_invertidos(self, datos, tiempo) ==
    LET segmentos == binario_a_bloques(self, datos)
        bloques == segmentos[1]
        bits_padding == segmentos[2]
        invertidos == [i \in 1..Len(bloques) |-> bloques[Len(bloques) - i + 1]]
    IN  [tipo |-> "dict",
         bloques_codificados |-> bucle_codificar(self, invertidos, 1, <<>>),
         bits_padding |-> bits_padding,
         base |-> self.base,
         potencia |-> self.potencia,
         bits_por_bloque |-> self.bits_por_bloque,
         num_bloques |-> Len(bloques),
         bits_originales |-> Len(datos),
         tiempo_codificacion |-> tiempo]

\* codificar recording the length of the padded input as bits_originales
codificar_longitud_rellenada(self, datos, tiempo) ==
    LET segmentos == binario_a_bloques(self, datos)
        bloques == segmentos[1]
        bits_padding == segmentos[2]
    IN  [tipo |-> "dict",
         bloques_codificados |-> bucle_codificar(self, bloques, 1, <<>>),
         bits_padding |-> bits_padding,
         base |-> self.base,
         potencia |-> self.potencia,
         bits_por_bloque |-> self.bits_por_bloque,
         num_bloques |-> Len(bloques),
         bits_originales |-> Len(datos) + bits_padding,
         tiempo_codificacion |-> tiempo]

\* the returned dict; tiempo is the elapsed time the clock gave
codificar(self, datos, tiempo) ==
    LET segmentos == binario_a_bloques(self, datos)
        bloques == segmentos[1]
        bits_padding == segmentos[2]
    IN  [tipo |-> "dict",
         bloques_codificados |-> bucle_codificar(self, bloques, 1, <<>>),
         bits_padding |-> bits_padding,
         base |-> self.base,
         potencia |-> self.potencia,
         bits_por_bloque |-> self.bits_por_bloque,
         num_bloques |-> Len(bloques),
         bits_originales |-> Len(datos),
         tiempo_codificacion |-> tiempo]

\* the for loop of decodificar over enumerate(bloques_codificados, 1)
RECURSIVE bucle_decodificar(_, _, _, _)
bucle_decodificar(self, codificados, idx, bloques_decodificados) ==
    IF idx > Len(codificados) THEN bloques_decodificados
    ELSE LET bloque == IF self.base = 2
                       THEN decodificar_bloque_base2(self, codificados[idx])
                       ELSE decodificar_bloque_base5(self, codificados[idx])
             siguientes == Append(bloques_decodificados, bloque)
         IN  CASE Len(siguientes) = idx ->
                  bucle_decodificar(self, codificados, idx + 1, siguientes)

\* the parameter validation at the head of decodificar: the ValueError it
\* raises, or Ninguno when the three parameters agree
validar_parametros(self, dc) ==
    IF dc.base # self.base
    THEN Excepcion("ValueError", "La base no coincide con la configuracion del codificador")
    ELSE IF dc.potencia # self.potencia
    THEN Excepcion("ValueError", "La potencia no coincide con la configuracion del codificador")
    ELSE IF dc.bits_por_bloque # self.bits_por_bloque
    THEN Excepcion("ValueError", "El tamano de bloque no coincide con la configuracion")
    ELSE Ninguno

\* bloques_decodificados with the blocks decoded before the parameters are compared
bloques_decodificados_antes_de_validar(self, dc) ==
    Lista(bucle_decodificar(self, dc.bloques_codificados, 1, <<>>))

\* decodificar's local list bloques_decodificados at the end of the call:
\* never created when the validation raises
bloques_decodificados(self, dc) ==
    IF validar_parametros(self, dc) # Ninguno THEN Ninguno
    ELSE Lista(bucle_decodificar(self, dc.bloques_codificados, 1, <<>>))

\* decodificar that returns the padded reconstruction
decodificar_sin_recorte(self, dc) ==
    IF validar_parametros(self, dc) # Ninguno THEN validar_parametros(self, dc)
    ELSE Cadena(join(bucle_decodificar(self, dc.bloques_codificados, 1, <<>>)))

\* decodificar that keeps the first bits_originales bits of the reconstruction
decodificar_hasta_bits_originales(self, dc) ==
    IF validar_parametros(self, dc) # Ninguno THEN validar_parametros(self, dc)
    ELSE Cadena(Rebanada(join(bloques_decodificados(self, dc).valor), 0,
                         dc.bits_originales))

\* decodificar that removes the padding bits from the start
decodificar_recorte_inicial(self, dc) ==
    IF validar_parametros(self, dc) # Ninguno THEN validar_parametros(self, dc)
    ELSE LET datos_reconstruidos == join(bloques_decodificados(self, dc).valor)
         IN  IF dc.bits_padding > 0
             THEN Cadena(Rebanada(datos_reconstruidos, dc.bits_padding,
                                  Len(datos_reconstruidos)))
             ELSE Cadena(datos_reconstruidos)

\* the returned str, or the exception raised
decodificar(self, dc) ==
    IF validar_parametros(self, dc) # Ninguno THEN validar_parametros(self, dc)
    ELSE LET datos_reconstruidos == join(bloques_decodificados(self, dc).valor)
         IN  IF dc.bits_padding > 0
             THEN Cadena(Rebanada(datos_reconstruidos, 0,
                                  Len(datos_reconstruidos) - dc.bits_padding))
             ELSE Cadena(datos_reconstruidos)

-----------------------------------------------------------------------------
(* class AnalizadorEficiencia *)

\* the value of one byte, from its 8 bits
ValorByte(b) == 128 * b[1] + 64 * b[2] + 32 * b[3] + 16 * b[4]
                + 8 * b[5] + 4 * b[6] + 2 * b[7] + b[8]

\* v.to_bytes(n, byteorder='big') for v < 256 ** n
to_bytes(v, n) ==
    LET bits == zfill(bin(v), 8 * n)
    IN  [k \in 1..n |-> ValorByte(SubSeq(bits, 8 * (k - 1) + 1, 8 * k))]

\* hashlib.sha256(bytes_data).hexdigest(): the digest is taken as injective
\* on the bytes hashed, so it is represented by those bytes
sha256_hexdigest(bytes_data) == <<"sha256", bytes_data>>

\* calcular_sha256 hashing the number of bits after the packed bytes
calcular_sha256_con_longitud(datos) ==
    LET padding_bytes == (8 - (Len(datos) % 8)) % 8
        datos_padded == datos \o Ceros(padding_bytes)
    IN  IF datos_padded = <<>>
        THEN Excepcion("ValueError", "invalid literal for int() with base 2: ''")
        ELSE Cadena(sha256_hexdigest(
                 Append(to_bytes(int2(datos_padded), Len(datos_padded) \div 8),
                        Len(datos))))

\* calcular_sha256 packing the whole bytes only, without the padded last byte
calcular_sha256_sin_relleno(datos) ==
    LET n == Len(datos) \div 8
    IN  Cadena(sha256_hexdigest(
            [k \in 1..n |-> ValorByte(SubSeq(datos, 8 * (k - 1) + 1, 8 * k))]))

\* the hex digest (a str), or the ValueError of int('', 2)
calcular_sha256(datos) ==
    LET padding_bytes == (8 - (Len(datos) % 8)) % 8
        datos_padded == datos \o Ceros(padding_bytes)
    IN  IF datos_padded = <<>>
        THEN Excepcion("ValueError", "invalid literal for int() with base 2: ''")
        ELSE Cadena(sha256_hexdigest(to_bytes(int2(datos_padded), Len(datos_padded) \div 8)))

\* verificar_integridad deciding by the lengths instead of the bits
verificar_integridad_por_longitud(original, decodificado) ==
    LET coinciden_bits == original = decodificado
        hash_original == calcular_sha256(original)
        hash_decodificado == calcular_sha256(decodificado)
    IN  IF EsExcepcion(hash_original) THEN hash_original
        ELSE IF EsExcepcion(hash_decodificado) THEN hash_decodificado
        ELSE LET coinciden_hash == hash_original = hash_decodificado
             IN  [tipo |-> "bool",
                  valor |-> Len(original) = Len(decodificado),
                  coinciden_bits |-> coinciden_bits,
                  coinciden_hash |-> coinciden_hash]

\* the returned bool with the two locals it is the conjunction of, or the
\* exception calcular_sha256 raised
verificar_integridad(original, decodificado) ==
    LET coinciden_bits == original = decodificado
        hash_original == calcular_sha256(original)
        hash_decodificado == calcular_sha256(decodificado)
    IN  IF EsExcepcion(hash_original) THEN hash_original
        ELSE IF EsExcepcion(hash_decodificado) THEN hash_decodificado
        ELSE LET coinciden_hash == hash_original = hash_decodificado
             IN  [tipo |-> "bool",
                  valor |-> coinciden_bits /\ coinciden_hash,
                  coinciden_bits |-> coinciden_bits,
                  coinciden_hash |-> coinciden_hash]

-----------------------------------------------------------------------------
(* The inputs the callers draw from *)

\* the longest bit string of the pattern families
MaxLen == 12

\* every bit string up to this length is an input
MaxTodas == 3

\* the largest elapsed time the clock reports
MaxTiempo == 1

\* the lengths used by prueba_padding and ejemplo_4_padding_detallado
LongitudesDePrueba == {25, 80, 95}

Patrones == {"ceros", "unos", "alterna", "uno_inicial", "uno_final"}

\* the bit string of n bits of a family
Patron(p, n) ==
    [i \in 1..n |->
        CASE p = "ceros" -> 0
          [] p = "unos" -> 1
          [] p = "alterna" -> i % 2
          [] p = "uno_inicial" -> IF i = 1 THEN 1 ELSE 0
          [] p = "uno_final" -> IF i = n THEN 1 ELSE 0]

\* all bit strings of n bits
Todas(n) == [1..n -> Bit]

CadenasBinarias ==
    UNION {Todas(n) : n \in 0..MaxTodas}
    \cup {Patron(p, n) : p \in Patrones, n \in (0..MaxLen) \cup LongitudesDePrueba}

Tiempos == 0..MaxTiempo

\* the arguments callers pass to the constructor: legal and illegal bases,
\* powers and block sizes
BasesDeUso == {2, 5}
PotenciasDeUso == {DosElevado(1), DosElevado(4), DosElevado(64), Numeral(25)}
BitsDeUso == {BITS_MINIMO, 40}

-----------------------------------------------------------------------------
(* The caller of the codec: it constructs a codec, encodes a bit string     *)
(* with it, and decodes the encoded dict with the codec it holds then       *)
(* (the one that encoded, or one constructed since).  The codec keeps no    *)
(* state between calls: codificar and decodificar read the three fields of  *)
(* self and their argument only, so a run of the caller encodes one bit     *)
(* string.  bloques_decodificados is a local of decodificar: it exists      *)
(* when that call ends and not after any other call.                        *)

Init ==
    /\ codec = Ninguno
    /\ llamada = [op |-> "ninguna"]
    /\ retorno = Ninguno
    /\ datos_binarios = Ninguno
    /\ datos_codificados = Ninguno
    /\ decodificados = Ninguno

\* codec = CodificadorUniversal(base, potencia, bits_por_bloque); when the
\* constructor raises, the assignment does not happen
Construir(base, potencia, bits_por_bloque) ==
    LET r == CodificadorUniversal(base, potencia, bits_por_bloque)
    IN  /\ llamada' = [op |-> "construir", base |-> base, potencia |-> potencia,
                       bits_por_bloque |-> bits_por_bloque]
        /\ retorno' = r
        /\ codec' = IF EsExcepcion(r) THEN codec ELSE r
        /\ decodificados' = Ninguno
        /\ UNCHANGED <<datos_binarios, datos_codificados>>

\* datos_codificados = codec.codificar(datos_binarios)
Codificar(datos, tiempo) ==
    /\ codec # Ninguno
    /\ datos_codificados = Ninguno
    /\ LET r == codificar(codec, datos, tiempo)
       IN  /\ llamada' = [op |-> "codificar", datos |-> datos]
           /\ retorno' = r
           /\ datos_binarios' = Cadena(datos)
           /\ datos_codificados' = r
    /\ decodificados' = Ninguno
    /\ UNCHANGED codec

\* codec.decodificar(datos_codificados)
Decodificar ==
    /\ codec # Ninguno
    /\ datos_codificados.tipo = "dict"
    /\ llamada' = [op |-> "decodificar"]
    /\ retorno' = decodificar(codec, datos_codificados)
    /\ decodificados' = bloques_decodificados(codec, datos_codificados)
    /\ UNCHANGED <<codec, datos_binarios, datos_codificados>>

Next ==
    \/ \E base \in BasesDeUso, potencia \in PotenciasDeUso, bits \in BitsDeUso :
           Construir(base, potencia, bits)
    \/ \E datos \in CadenasBinarias, tiempo \in Tiempos : Codificar(datos, tiempo)
    \/ Decodificar

Spec == Init /\ [][Next]_vars

-----------------------------------------------------------------------------
(* The caller of the parts of the codec: with the codec it constructed it   *)
(* segments a bit string, encodes one, or encodes one block and decodes the *)
(* values obtained.                                                         *)

\* every block of up to this many bits is an input
MaxBitsBloque == 11

\* the blocks of this many bits are those of the pattern families
MaxBitsPatron == 40

BitsDeBloque == (BITS_MINIMO..MaxBitsBloque) \cup {MaxBitsPatron}

PotenciasDeBloque == Elementos(POTENCIAS_BASE_2) \cup Elementos(POTENCIAS_BASE_5)

\* the blocks of n bits the caller encodes
Bloques(n) ==
    IF n <= MaxBitsBloque THEN Todas(n) ELSE {Patron(p, n) : p \in Patrones}

\* bloques, bits_padding = codec.binario_a_bloques(datos)
Segmentar(datos) ==
    /\ codec # Ninguno
    /\ LET r == binario_a_bloques(codec, datos)
       IN  /\ llamada' = [op |-> "segmentar", datos |-> datos]
           /\ retorno' = [tipo |-> "tuple", bloques |-> r[1], bits_padding |-> r[2]]
    /\ decodificados' = Ninguno
    /\ UNCHANGED <<codec, datos_binarios, datos_codificados>>

\* valores = codec.codificar_bloque_base2(bloque) or codec.codificar_bloque_base5(bloque),
\* as codificar chooses by self.base
CodificarBloque(bloque) ==
    /\ codec # Ninguno
    /\ Len(bloque) = codec.bits_por_bloque
    /\ LET valores == IF codec.base = 2
                      THEN codificar_bloque_base2(codec, bloque)
                      ELSE codificar_bloque_base5(codec, bloque)
       IN  /\ llamada' = [op |-> "codificar_bloque", bloque |-> bloque]
           /\ retorno' = Lista(valores)
           /\ datos_binarios' = Cadena(bloque)
           /\ datos_codificados' = Lista(valores)
    /\ decodificados' = Ninguno
    /\ UNCHANGED codec

\* codec.decodificar_bloque_base2(valores) or codec.decodificar_bloque_base5(valores),
\* as decodificar chooses by self.base, on the values the caller holds
DecodificarBloque ==
    /\ codec # Ninguno
    /\ datos_codificados.tipo = "list"
    /\ llamada' = [op |-> "decodificar_bloque", valores |-> datos_codificados.valor]
    /\ retorno' = Cadena(IF codec.base = 2
                         THEN decodificar_bloque_base2(codec, datos_codificados.valor)
                         ELSE decodificar_bloque_base5(codec, datos_codificados.valor))
    /\ decodificados' = Ninguno
    /\ UNCHANGED <<codec, datos_binarios, datos_codificados>>

\* the caller constructs one codec and does one operation with it
NextBloque ==
    \/ \E base \in {2, 5}, potencia \in PotenciasDeBloque, bits \in BitsDeBloque :
           codec = Ninguno /\ Construir(base, potencia, bits)
    \/ \E datos \in CadenasBinarias : llamada.op = "construir" /\ Segmentar(datos)
    \/ \E datos \in CadenasBinarias, tiempo \in Tiempos :
           llamada.op = "construir" /\ Codificar(datos, tiempo)
    \/ /\ codec # Ninguno
       /\ llamada.op = "construir"
       /\ \E bloque \in Bloques(codec.bits_por_bloque) : CodificarBloque(bloque)
    \/ llamada.op = "codificar_bloque" /\ DecodificarBloque

SpecBloque == Init /\ [][NextBloque]_vars

-----------------------------------------------------------------------------
(* Properties of the caller's runs (specification Spec) *)

\* the encoded dict the caller holds was produced under the configuration of
\* the codec the caller holds
MismaConfiguracion ==
    /\ datos_codificados.base = codec.base
    /\ datos_codificados.potencia = codec.potencia
    /\ datos_codificados.bits_por_bloque = codec.bits_por_bloque

\* C1: round trip.  When decodificar has been called on the dict that
\* codificar produced from datos_binarios under the same configuration, it
\* returned a str equal to datos_binarios: the same bits and the same length
\* (the empty string included).
RoundTrip ==
    (llamada.op = "decodificar" /\ MismaConfiguracion)
        => /\ retorno.tipo = "str"
           /\ Len(retorno.valor) = Len(datos_binarios.valor)
           /\ \A i \in 1..Len(retorno.valor) : retorno.valor[i] = datos_binarios.valor[i]

\* a padded input of several blocks that ends in zero bits has been decoded
RoundTripWitness ==
    /\ llamada.op = "decodificar"
    /\ MismaConfiguracion
    /\ datos_codificados.num_bloques > 1
    /\ datos_codificados.bits_padding > 0
    /\ datos_binarios.valor = Patron("uno_inicial", MaxLen)
    /\ retorno = datos_binarios

\* C4: when decodificar is called on a dict whose base, potencia or
\* bits_por_bloque differs from the codec's, it raises the ValueError of the
\* comparison; the list of decoded blocks was never created and no str is
\* returned.
MismatchFailsAtEntry ==
    (llamada.op = "decodificar" /\ ~MismaConfiguracion)
        => /\ retorno.tipo = "ValueError"
           /\ decodificados = Ninguno

\* a dict encoded with another block size (same base and potencia) was refused
MismatchWitness ==
    /\ llamada.op = "decodificar"
    /\ datos_codificados.base = codec.base
    /\ datos_codificados.potencia = codec.potencia
    /\ datos_codificados.bits_por_bloque # codec.bits_por_bloque
    /\ datos_codificados.num_bloques > 0
    /\ retorno.tipo = "ValueError"
    /\ decodificados = Ninguno

\* ceil(n / b) for n >= 0 and b > 0
Techo(n, b) == (n + b - 1) \div b

\* C7: codificar of n bits with block size B produces ceil(n / B) encoded
\* blocks and reports bits_padding = ceil(n / B) * B - n; 25 bits with base 5,
\* potencia 25, B = 40 give 1 block and padding 15, 95 bits with base 2,
\* potencia 16, B = 40 give 3 blocks and padding 25, and 80 bits with B = 40
\* give 2 blocks and padding 0.
BlockCount ==
    llamada.op = "codificar" =>
        LET n == Len(llamada.datos)
            B == codec.bits_por_bloque
        IN  /\ Len(retorno.bloques_codificados) = Techo(n, B)
            /\ retorno.num_bloques = Techo(n, B)
            /\ retorno.bits_padding = Techo(n, B) * B - n
            /\ (n = 25 /\ codec = Objeto(5, Numeral(25), 40))
                   => (retorno.num_bloques = 1 /\ retorno.bits_padding = 15)
            /\ (n = 95 /\ codec = Objeto(2, DosElevado(4), 40))
                   => (retorno.num_bloques = 3 /\ retorno.bits_padding = 25)
            /\ (n = 80 /\ B = 40)
                   => (retorno.num_bloques = 2 /\ retorno.bits_padding = 0)

\* 95 one bits have been encoded with base 2, potencia 16, B = 40
BlockCountWitness ==
    /\ llamada.op = "codificar"
    /\ llamada.datos = Unos(95)
    /\ codec = Objeto(2, DosElevado(4), 40)
    /\ retorno.num_bloques = 3
    /\ retorno.bits_padding = 25

-----------------------------------------------------------------------------
(* The caller that validates parameters (prueba_validacion_parametros): it  *)
(* tries argument triples until a codec is constructed.                     *)

\* the bases tried are 0..MaxBase and 10
MaxBase == 5

\* the powers tried are 0..MaxPotencia and the larger ones listed below
MaxPotencia == 9

\* the block sizes tried lie within Margen of each limit, besides those listed
Margen == 1

BasesDePrueba == (0..MaxBase) \cup {10}

PotenciasDePrueba ==
    {Numeral(n) : n \in 0..MaxPotencia}
    \cup {Numeral(n) : n \in {16, 25, 32, 100, 125, 256, 625, 3125}}
    \cup {DosElevado(32), DosElevado(63), DosElevado(64)}

BitsDePrueba ==
    ((BITS_MINIMO - Margen)..(BITS_MINIMO + Margen))
    \cup ((BITS_MAXIMO - Margen)..(BITS_MAXIMO + Margen))
    \cup {5, 40, 50, 100, 1500, 2000}

NextConfig ==
    \E base \in BasesDePrueba, potencia \in PotenciasDePrueba, bits \in BitsDePrueba :
        codec = Ninguno /\ Construir(base, potencia, bits)

SpecConfig == Init /\ [][NextConfig]_vars

\* the legal powers of a base, as exponents
PotenciaLegal(base, potencia) ==
    \/ base = 2 /\ \E e \in {1, 2, 4, 8, 16, 32, 64} : potencia = DosElevado(e)
    \/ base = 5 /\ \E e \in 1..4 : potencia = Potencia(Numeral(5), e)

\* the tested triples, as <<base, potencia, bits_por_bloque>> of the call
Llamado(base, potencia, bits_por_bloque) ==
    /\ llamada.base = base
    /\ llamada.potencia = Numeral(potencia)
    /\ llamada.bits_por_bloque = bits_por_bloque

\* C2: the constructor returns an object exactly when base is 2 or 5, potencia
\* is one of the legal powers of that base and 10 <= bits_por_bloque <= 1000;
\* otherwise it raises ConfiguracionInvalidaError and the caller has no codec.
\* (3,9,40), (10,100,40), (2,8,40), (2,32,40), (5,3125,40), (5,25,5),
\* (5,25,1500) and (5,25,2000) are rejected; (2,256,100) and (5,125,50) are
\* accepted.
ConfigureIffLegal ==
    llamada.op = "construir" =>
        LET legal == /\ llamada.base \in {2, 5}
                     /\ PotenciaLegal(llamada.base, llamada.potencia)
                     /\ 10 <= llamada.bits_por_bloque
                     /\ llamada.bits_por_bloque <= 1000
            rechazada == retorno.tipo = "ConfiguracionInvalidaError" /\ codec = Ninguno
            aceptada == /\ retorno = Objeto(llamada.base, llamada.potencia,
                                            llamada.bits_por_bloque)
                        /\ codec = retorno
        IN  /\ legal => aceptada
            /\ ~legal => rechazada
            /\ (\/ Llamado(3, 9, 40) \/ Llamado(10, 100, 40) \/ Llamado(2, 8, 40)
                \/ Llamado(2, 32, 40) \/ Llamado(5, 3125, 40) \/ Llamado(5, 25, 5)
                \/ Llamado(5, 25, 1500) \/ Llamado(5, 25, 2000)) => rechazada
            /\ (Llamado(2, 256, 100) \/ Llamado(5, 125, 50)) => aceptada

\* (2, 256, 100) has been accepted
ConfigureWitness ==
    /\ llamada.op = "construir"
    /\ Llamado(2, 256, 100)
    /\ codec = Objeto(2, DosElevado(8), 100)

\* C3 as stated: every call with bits_por_bloque outside [10, 1000] raises
\* ConfiguracionInvalidaError with the block-size reason.
BlockSizeReasonAlways ==
    (llamada.op = "construir"
        /\ (llamada.bits_por_bloque < 10 \/ llamada.bits_por_bloque > 1000))
        => /\ retorno.tipo = "ConfiguracionInvalidaError"
           /\ retorno.mensaje = MSG_BLOQUE

\* C3 (amended): every call with bits_por_bloque outside [10, 1000] raises
\* ConfiguracionInvalidaError; the reason is the block-size one when base and
\* potencia are legal, the base one when base is neither 2 nor 5, and the
\* power one of the base otherwise.
BlockSizeReason ==
    (llamada.op = "construir"
        /\ (llamada.bits_por_bloque < 10 \/ llamada.bits_por_bloque > 1000))
        => /\ retorno.tipo = "ConfiguracionInvalidaError"
           /\ retorno.mensaje =
                  IF llamada.base \notin {2, 5} THEN MSG_BASE
                  ELSE IF ~PotenciaLegal(llamada.base, llamada.potencia)
                  THEN (IF llamada.base = 2 THEN MSG_POTENCIA_2 ELSE MSG_POTENCIA_5)
                  ELSE MSG_BLOQUE

\* a legal base and power with a block size just above the upper limit has
\* been refused with the block-size reason
BlockSizeReasonWitness ==
    /\ llamada.op = "construir"
    /\ llamada.base = 2
    /\ llamada.potencia = DosElevado(64)
    /\ llamada.bits_por_bloque = BITS_MAXIMO + 1
    /\ retorno = Excepcion("ConfiguracionInvalidaError", MSG_BLOQUE)

-----------------------------------------------------------------------------
(* Properties of the parts of the codec (specification SpecBloque) *)

\* C5: the bits_padding returned by binario_a_bloques, and the one recorded
\* in the dict of codificar, is at least 0 and less than bits_por_bloque, and
\* it is 0 exactly when the length of the input is a multiple of
\* bits_por_bloque (the empty input included).
PaddingBound ==
    llamada.op \in {"segmentar", "codificar"} =>
        LET n == Len(llamada.datos)
            B == codec.bits_por_bloque
        IN  /\ 0 <= retorno.bits_padding
            /\ retorno.bits_padding < B
            /\ retorno.bits_padding = 0 <=> n % B = 0

\* a non-empty input of exactly two blocks has been segmented without padding
PaddingBoundWitness ==
    /\ llamada.op = "segmentar"
    /\ Len(llamada.datos) = 2 * codec.bits_por_bloque
    /\ retorno.bits_padding = 0

\* C6: binario_a_bloques returns the consecutive chunks of the input, in
\* order from offset 0; every block has exactly bits_por_bloque bits, every
\* block but the last is the chunk itself, and the blocks concatenated are
\* the input followed by exactly bits_padding zero bits; an empty input
\* gives no block and no padding.
SegmentChunks ==
    llamada.op = "segmentar" =>
        LET datos == llamada.datos
            B == codec.bits_por_bloque
            bloques == retorno.bloques
            m == Len(bloques)
        IN  /\ \A k \in 1..m : Len(bloques[k]) = B
            /\ \A k \in 1..(m - 1) :
                   \A i \in 1..B : bloques[k][i] = datos[(k - 1) * B + i]
            /\ m * B = Len(datos) + retorno.bits_padding
            /\ \A k \in 1..m : \A i \in 1..B :
                   bloques[k][i] = IF (k - 1) * B + i <= Len(datos)
                                   THEN datos[(k - 1) * B + i] ELSE 0
            /\ datos = <<>> => (bloques = <<>> /\ retorno.bits_padding = 0)

\* an input of ones that needs padding has been cut into several blocks
SegmentChunksWitness ==
    /\ llamada.op = "segmentar"
    /\ llamada.datos = Unos(25)
    /\ Len(retorno.bloques) = 3
    /\ retorno.bits_padding = 3 * codec.bits_por_bloque - 25
    /\ retorno.bits_padding > 0

\* C8: under both block codecs, for every power and block size, a block of
\* zeros is encoded as the list [0] of one value, never the empty list, and
\* the list [0] is decoded as bits_por_bloque zero bits.
ZeroBlock ==
    /\ (llamada.op = "codificar_bloque" /\ llamada.bloque = Ceros(codec.bits_por_bloque))
           => retorno.valor = <<Cero>>
    /\ (llamada.op = "decodificar_bloque" /\ llamada.valores = <<Cero>>)
           => /\ Len(retorno.valor) = codec.bits_por_bloque
              /\ \A i \in 1..Len(retorno.valor) : retorno.valor[i] = 0

\* the list [0] obtained from a block of zeros has been decoded in base 5
ZeroBlockWitness ==
    /\ llamada.op = "decodificar_bloque"
    /\ codec.base = 5
    /\ datos_binarios.valor = Ceros(codec.bits_por_bloque)
    /\ llamada.valores = <<Cero>>
    /\ retorno.valor = Ceros(codec.bits_por_bloque)

\* C9: decoding the values a block of exactly bits_por_bloque bits was
\* encoded to gives back the same bits_por_bloque bits, leading zeros
\* included, for every window width (also one that does not divide
\* bits_por_bloque or exceeds it) and for every power of 5.
BlockRoundTrip ==
    llamada.op = "decodificar_bloque" =>
        /\ Len(retorno.valor) = codec.bits_por_bloque
        /\ \A i \in 1..codec.bits_por_bloque : retorno.valor[i] = datos_binarios.valor[i]

\* a block with leading zeros has been encoded and decoded with a window
\* wider than the block
BlockRoundTripWitness ==
    /\ llamada.op = "decodificar_bloque"
    /\ codec.base = 2
    /\ bit_length(codec.potencia) - 1 > codec.bits_por_bloque
    /\ datos_binarios.valor[1] = 0
    /\ datos_binarios.valor[codec.bits_por_bloque] = 1
    /\ retorno = datos_binarios

-----------------------------------------------------------------------------
(* The caller of AnalizadorEficiencia.verificar_integridad: it verifies one *)
(* pair of bit strings.                                                     *)

\* AnalizadorEficiencia().verificar_integridad(original, decodificado)
Verificar(original, decodificado) ==
    /\ llamada' = [op |-> "verificar", original |-> original,
                   decodificado |-> decodificado]
    /\ retorno' = verificar_integridad(original, decodificado)
    /\ decodificados' = Ninguno
    /\ UNCHANGED <<codec, datos_binarios, datos_codificados>>

NextVerify ==
    \E original \in CadenasBinarias, decodificado \in CadenasBinarias :
        llamada.op = "ninguna" /\ Verificar(original, decodificado)

SpecVerify == Init /\ [][NextVerify]_vars

\* C10: for every bit string b, the empty one included, verificar_integridad(b, b)
\* returns, with coinciden_bits and coinciden_hash both true and so the
\* result true.
VerifyReflexive ==
    (llamada.op = "verificar" /\ llamada.original = llamada.decodificado)
        => /\ retorno.tipo = "bool"
           /\ retorno.coinciden_bits
           /\ retorno.coinciden_hash
           /\ retorno.valor

\* the positions where two bit strings of the same length differ
Diferencias(a, b) == {i \in 1..Len(a) : a[i] # b[i]}

\* C11: for every non-empty bit string and every string that differs from it
\* in exactly one bit (same length), verificar_integridad returns with
\* coinciden_bits false and coinciden_hash false (the digest being injective
\* on the packed bytes), and so with the result false.
SingleBitFlipDetected ==
    (/\ llamada.op = "verificar"
     /\ Len(llamada.original) > 0
     /\ Len(llamada.original) = Len(llamada.decodificado)
     /\ Cardinality(Diferencias(llamada.original, llamada.decodificado)) = 1)
        => /\ retorno.tipo = "bool"
           /\ ~retorno.coinciden_bits
           /\ ~retorno.coinciden_hash
           /\ ~retorno.valor

\* a string whose length is not a multiple of 8 has been verified against
\* the one with its last bit flipped
SingleBitFlipWitness ==
    /\ llamada.op = "verificar"
    /\ llamada.original = Ceros(MaxLen)
    /\ llamada.decodificado = Patron("uno_final", MaxLen)
    /\ retorno.tipo = "bool"
    /\ ~retorno.valor

\* C12: when verificar_integridad returns, its result is true exactly when
\* coinciden_bits and coinciden_hash are both true; for two different bit
\* strings of the same length it returns false.
VerifiedIffBoth ==
    llamada.op = "verificar" =>
        /\ retorno.tipo = "bool"
               => (retorno.valor <=> (retorno.coinciden_bits /\ retorno.coinciden_hash))
        /\ (/\ Len(llamada.original) = Len(llamada.decodificado)
            /\ Diferencias(llamada.original, llamada.decodificado) # {})
               => (retorno.tipo = "bool" /\ ~retorno.valor)

\* two strings of the same length that differ in every bit were not verified
VerifiedIffBothWitness ==
    /\ llamada.op = "verificar"
    /\ llamada.original = Unos(MaxLen)
    /\ llamada.decodificado = Ceros(MaxLen)
    /\ retorno.tipo = "bool"
    /\ ~retorno.valor

-----------------------------------------------------------------------------
(* The helper conversions bytes_a_binario and binario_a_bytes.  A bytes     *)
(* object is the sequence of its byte values 0..255.                        *)

Bytes(valores) == [tipo |-> "bytes", valor |-> valores]

\* format(byte, '08b')
format08b(byte) ==
    <<(byte \div 128) % 2, (byte \div 64) % 2, (byte \div 32) % 2, (byte \div 16) % 2,
      (byte \div 8) % 2, (byte \div 4) % 2, (byte \div 2) % 2, byte % 2>>

\* bytes_a_binario(datos_bytes): the returned str
bytes_a_binario(datos_bytes) ==
    join([k \in 1..Len(datos_bytes) |-> format08b(datos_bytes[k])])

\* binario_a_bytes(datos): the returned bytes, or the ValueError of int('', 2)
binario_a_bytes(datos) ==
    LET padding == (8 - (Len(datos) % 8)) % 8
        datos_padded == datos \o Ceros(padding)
    IN  IF datos_padded = <<>>
        THEN Excepcion("ValueError", "invalid literal for int() with base 2: ''")
        ELSE Bytes(to_bytes(int2(datos_padded), Len(datos_padded) \div 8))

\* the byte sequences converted have up to this many bytes
MaxBytes == 2

\* the byte values used are within MaxByte of 0 and of 255, besides 127 and 128
MaxByte == 3

ValoresDeByte == (0..MaxByte) \cup ((255 - MaxByte)..255) \cup {127, 128}

SecuenciasDeBytes == UNION {[1..n -> ValoresDeByte] : n \in 0..MaxBytes}

\* datos_binarios = bytes_a_binario(datos_bytes)
BytesABinario(datos_bytes) ==
    /\ llamada' = [op |-> "bytes_a_binario", datos_bytes |-> datos_bytes]
    /\ retorno' = Cadena(bytes_a_binario(datos_bytes))
    /\ datos_binarios' = Cadena(bytes_a_binario(datos_bytes))
    /\ decodificados' = Ninguno
    /\ UNCHANGED <<codec, datos_codificados>>

\* binario_a_bytes(datos_binarios)
BinarioABytes ==
    /\ datos_binarios.tipo = "str"
    /\ llamada' = [op |-> "binario_a_bytes", datos_bytes |-> llamada.datos_bytes]
    /\ retorno' = binario_a_bytes(datos_binarios.valor)
    /\ decodificados' = Ninguno
    /\ UNCHANGED <<codec, datos_binarios, datos_codificados>>

\* the caller converts one byte sequence to bits and back
NextBytes ==
    \/ \E datos_bytes \in SecuenciasDeBytes :
           llamada.op = "ninguna" /\ BytesABinario(datos_bytes)
    \/ llamada.op = "bytes_a_binario" /\ BinarioABytes

SpecBytes == Init /\ [][NextBytes]_vars

\* C13: for every byte sequence, the empty one included, bytes_a_binario
\* returns 8 bits per byte, each byte rendered most significant bit first, in
\* order, and binario_a_bytes of that string returns the byte sequence.
BytesRoundTrip ==
    /\ llamada.op = "bytes_a_binario" =>
           /\ Len(retorno.valor) = 8 * Len(llamada.datos_bytes)
           /\ \A k \in 1..Len(llamada.datos_bytes) :
                  ValorByte(SubSeq(retorno.valor, 8 * (k - 1) + 1, 8 * k))
                      = llamada.datos_bytes[k]
    /\ llamada.op = "binario_a_bytes" =>
           /\ retorno.tipo = "bytes"
           /\ Len(retorno.valor) = Len(llamada.datos_bytes)
           /\ \A k \in 1..Len(llamada.datos_bytes) :
                  retorno.valor[k] = llamada.datos_bytes[k]

-----------------------------------------------------------------------------
(* The loops of codificar_bloque_base2 and codificar_bloque_base5, one      *)
(* iteration at a time.  While the call runs, retorno holds its locals      *)
(* (valor_actual or cociente, and the list of ventanas or residuos); when   *)
(* the loop ends it holds the returned list.                                *)

\* bits_ventana = self.potencia.bit_length() - 1
ancho_corto(self) == bit_length(self.potencia) - 2

ancho_ventana(self) == bit_length(self.potencia) - 1

\* the call begins: valor_decimal = int(bloque_binario, 2), the list is empty
IniciarBloque(bloque) ==
    /\ codec # Ninguno
    /\ Len(bloque) = codec.bits_por_bloque
    /\ llamada' = [op |-> "bucle", bloque |-> bloque]
    /\ retorno' = IF codec.base = 2
                   THEN [tipo |-> "locales", valor |-> int2(bloque), digitos |-> <<>>,
                         bits_ventana |-> ancho_ventana(codec),
                         mascara |-> Resta(codec.potencia, Uno)]
                   ELSE [tipo |-> "locales", valor |-> int2(bloque), digitos |-> <<>>]
    /\ datos_binarios' = Cadena(bloque)
    /\ decodificados' = Ninguno
    /\ UNCHANGED <<codec, datos_codificados>>

\* one iteration of while valor_actual > 0 in codificar_bloque_base2
PasoVentana ==
    /\ llamada.op = "bucle"
    /\ codec.base = 2
    /\ retorno.valor # Cero
    /\ retorno' = [retorno EXCEPT
                      !.digitos = Append(@, And(retorno.valor, retorno.mascara)),
                      !.valor = ShiftR(@, retorno.bits_ventana)]
    /\ UNCHANGED <<codec, llamada, datos_binarios, datos_codificados, decodificados>>

\* one iteration of while cociente > 0 in codificar_bloque_base5
PasoResiduo ==
    /\ llamada.op = "bucle"
    /\ codec.base = 5
    /\ retorno.valor # Cero
    /\ retorno' = [retorno EXCEPT
                      !.digitos = Append(@, Residuo(retorno.valor, codec.potencia)),
                      !.valor = Cociente(@, codec.potencia)]
    /\ UNCHANGED <<codec, llamada, datos_binarios, datos_codificados, decodificados>>

\* the loop has ended: the list is returned, [0] when it is empty
FinBloque ==
    /\ llamada.op = "bucle"
    /\ retorno.valor = Cero
    /\ llamada' = [op |-> "codificar_bloque", bloque |-> llamada.bloque]
    /\ retorno' = Lista(IF retorno.digitos = <<>> THEN <<Cero>> ELSE retorno.digitos)
    /\ UNCHANGED <<codec, datos_binarios, datos_codificados, decodificados>>

Pasos == PasoVentana \/ PasoResiduo \/ FinBloque

\* the blocks of n bits whose loops are followed: those of the pattern
\* families, and every bit string up to MaxTodas bits after leading zeros or
\* before trailing zeros
BloquesDeBucle(n) ==
    {Patron(p, n) : p \in Patrones}
    \cup {Ceros(n - Len(t)) \o t : t \in UNION {Todas(k) : k \in 0..MaxTodas}}
    \cup {t \o Ceros(n - Len(t)) : t \in UNION {Todas(k) : k \in 0..MaxTodas}}

NextBucle ==
    \/ \E base \in {2, 5}, potencia \in PotenciasDeBloque, bits \in BitsDeBloque :
           codec = Ninguno /\ Construir(base, potencia, bits)
    \/ /\ codec # Ninguno
       /\ llamada.op = "construir"
       /\ \E bloque \in BloquesDeBucle(codec.bits_por_bloque) : IniciarBloque(bloque)
    \/ PasoVentana
    \/ PasoResiduo
    \/ FinBloque

\* a call that has begun keeps running, the program being sequential: this is
\* WF_vars(Pasos) with ENABLED <<Pasos>>_vars written out, a step of the call
\* being possible exactly while the call runs
Justicia == []<>(llamada.op # "bucle") \/ []<><<Pasos>>_vars

SpecBucle == Init /\ [][NextBucle]_vars /\ Justicia

\* a < b for two numerals
Menor(a, b) ==
    \/ Len(a) < Len(b)
    \/ /\ Len(a) = Len(b)
       /\ \E i \in 1..Len(a) :
              /\ a[i] < b[i]
              /\ \A j \in 1..(i - 1) : a[j] = b[j]

\* C14: the digit-extraction loop of either block codec makes the value
\* strictly smaller in every iteration, and every call that has begun on a
\* block ends by returning a list of digits (never an error).
LoopsTerminate ==
    /\ [][(llamada.op = "bucle" /\ llamada'.op = "bucle")
              => Menor(retorno'.valor, retorno.valor)]_vars
    /\ (llamada.op = "bucle")
           ~> (llamada.op = "codificar_bloque" /\ retorno.tipo = "list")

\* a block whose first bit is 1 has been encoded with windows of one bit, one
\* iteration per bit
LoopsTerminateWitness ==
    /\ llamada.op = "codificar_bloque"
    /\ codec.base = 2
    /\ ancho_ventana(codec) = 1
    /\ llamada.bloque[1] = 1
    /\ retorno.tipo = "list"
    /\ Len(retorno.valor) = codec.bits_por_bloque

-----------------------------------------------------------------------------
(* One codec used for several calls: a bit string is encoded, the stream is *)
(* decoded, or a stream recording another configuration is refused, and the *)
(* same bit string is encoded again.  datos_codificados keeps the result of *)
(* the first codificar; retorno holds the result of the last call.          *)

\* the bit strings of a session: every one of up to MaxTodas bits, and the
\* pattern families at lengths around one and two blocks
LongitudesDeSesion == {BITS_MINIMO - 1, BITS_MINIMO, BITS_MINIMO + 1, 2 * BITS_MINIMO}

CadenasDeSesion ==
    UNION {Todas(n) : n \in 0..MaxTodas}
    \cup {Patron(p, n) : p \in Patrones, n \in LongitudesDeSesion}

PotenciasDeSesion == {DosElevado(1), DosElevado(4), Numeral(5), Numeral(25)}

\* codec.decodificar(d) for a stream d that records another configuration:
\* the caller's own stream is left as it is
DecodificarAjeno(base, potencia, bits_por_bloque) ==
    /\ codec # Ninguno
    /\ llamada.op = "codificar"
    /\ <<base, potencia, bits_por_bloque>>
           # <<codec.base, codec.potencia, codec.bits_por_bloque>>
    /\ LET ajeno == [datos_codificados EXCEPT !.base = base, !.potencia = potencia,
                                               !.bits_por_bloque = bits_por_bloque]
       IN  /\ llamada' = [op |-> "decodificar", datos |-> ajeno]
           /\ retorno' = decodificar(codec, ajeno)
           /\ decodificados' = bloques_decodificados(codec, ajeno)
    /\ UNCHANGED <<codec, datos_binarios, datos_codificados>>

\* codec.decodificar(datos_codificados) after the first codificar
DecodificarPropio ==
    /\ llamada.op = "codificar"
    /\ Decodificar

\* codec.codificar(datos_binarios) once more, after the first codificar or
\* after the decodificar that followed it
Recodificar(tiempo) ==
    /\ codec # Ninguno
    /\ llamada.op \in {"codificar", "decodificar"}
    /\ llamada' = [op |-> "recodificar", datos |-> datos_binarios.valor,
                   tras |-> llamada.op]
    /\ retorno' = codificar(codec, datos_binarios.valor, tiempo)
    /\ decodificados' = Ninguno
    /\ UNCHANGED <<codec, datos_binarios, datos_codificados>>

NextSesion ==
    \/ \E base \in BasesDeUso, potencia \in PotenciasDeSesion :
           codec = Ninguno /\ Construir(base, potencia, BITS_MINIMO)
    \/ \E datos \in CadenasDeSesion, tiempo \in Tiempos : Codificar(datos, tiempo)
    \/ DecodificarPropio
    \/ \E base \in BasesDeUso, potencia \in PotenciasDeSesion, bits \in BitsDeUso :
           DecodificarAjeno(base, potencia, bits)
    \/ \E tiempo \in Tiempos : Recodificar(tiempo)

SpecSesion == Init /\ [][NextSesion]_vars

\* C15: a second codificar of the same bit string by the same codec returns
\* a record equal, in every field, to the one the first codificar returned.
EncodeDeterministic ==
    (llamada.op = "recodificar" /\ llamada.tras = "codificar")
        => retorno = datos_codificados

\* C16: no codificar or decodificar call, successful or refused, changes the
\* base, potencia or bits_por_bloque of the codec, and a codificar of the same
\* bit string returns what the first one returned, whatever calls came between.
Stateless ==
    [][/\ codec # Ninguno => codec' = codec
       /\ llamada'.op = "recodificar" => retorno' = datos_codificados']_vars

-----------------------------------------------------------------------------
(* The caller of decodificar_bloque_base2 and decodificar_bloque_base5 with *)
(* a list of values of its own: small values, values around potencia and    *)
(* values around 2 ** bits_por_bloque, in lists of up to MaxDigitos.        *)

MaxDigitos == 2

DigitosDePrueba(self) ==
    {Cero, Uno, Numeral(2), Numeral(3), Resta(self.potencia, Uno), self.potencia,
     DosElevado(self.bits_por_bloque - 1), DosElevado(self.bits_por_bloque)}

SecuenciasDeDigitos(self) ==
    UNION {[1..n -> DigitosDePrueba(self)] : n \in 0..MaxDigitos}

\* valores = [...], a list the caller wrote
EntregarDigitos(valores) ==
    /\ llamada' = [op |-> "digitos", valores |-> valores]
    /\ datos_codificados' = Lista(valores)
    /\ retorno' = Ninguno
    /\ decodificados' = Ninguno
    /\ UNCHANGED <<codec, datos_binarios>>

NextDigitos ==
    \/ \E base \in {2, 5}, potencia \in PotenciasDeBloque, bits \in BitsDeBloque :
           codec = Ninguno /\ Construir(base, potencia, bits)
    \/ /\ codec # Ninguno
       /\ llamada.op = "construir"
       /\ \E valores \in SecuenciasDeDigitos(codec) : EntregarDigitos(valores)
    \/ llamada.op = "digitos" /\ DecodificarBloque

SpecDigitos == Init /\ [][NextDigitos]_vars

\* C17 as stated: whatever the digits, the decoded block has exactly
\* bits_por_bloque bits.
BlockWidthAlways ==
    llamada.op = "decodificar_bloque" => Len(retorno.valor) = codec.bits_por_bloque

\* C17: the decoded block is the reconstructed value left-padded with zeros
\* to bits_por_bloque bits: exactly bits_por_bloque bits when the value is
\* below 2 ** bits_por_bloque, all of them zero when the value is 0, and the
\* value's own bits, more than bits_por_bloque of them, when it is larger.
BlockWidth ==
    llamada.op = "decodificar_bloque" =>
        LET v == int2(retorno.valor)
            n == codec.bits_por_bloque
        IN  /\ retorno.valor = zfill(bin(v), n)
            /\ Menor(v, DosElevado(n)) => Len(retorno.valor) = n
            /\ v = Cero => retorno.valor = Ceros(n)
            /\ ~Menor(v, DosElevado(n))
                   => /\ Len(retorno.valor) = bit_length(v)
                      /\ Len(retorno.valor) > n
                      /\ retorno.valor[1] = 1

\* two values whose reconstructed value is not 0 and has fewer bits than the
\* block were decoded, and the result was padded to bits_por_bloque bits
BlockWidthWitness ==
    /\ llamada.op = "decodificar_bloque"
    /\ Len(llamada.valores) = 2
    /\ int2(retorno.valor) # Cero
    /\ bit_length(int2(retorno.valor)) < codec.bits_por_bloque
    /\ Len(retorno.valor) = codec.bits_por_bloque

\* the sum over i of digitos[i] << ((i - 1) * w), by Horner's rule
RECURSIVE SumaDeVentanas(_, _)
SumaDeVentanas(digitos, w) ==
    IF digitos = <<>> THEN Cero
    ELSE LET resto == SumaDeVentanas(Tail(digitos), w)
         IN  CASE resto # <<>> -> Suma(Head(digitos), ShiftL(resto, w))

\* the sum over i of digitos[i] * potencia ** (i - 1), by Horner's rule
RECURSIVE SumaDeResiduos(_, _)
SumaDeResiduos(digitos, potencia) ==
    IF digitos = <<>> THEN Cero
    ELSE LET resto == SumaDeResiduos(Tail(digitos), potencia)
         IN  CASE resto # <<>> -> Suma(Head(digitos), Producto(resto, potencia))

\* the value the claim gives for a digit sequence under the codec
ValorPosicional(self, digitos) ==
    IF self.base = 2
    THEN SumaDeVentanas(digitos, bit_length(self.potencia) - 1)
    ELSE SumaDeResiduos(digitos, self.potencia)

DigitosMenores(self, digitos) ==
    \A i \in 1..Len(digitos) : Menor(digitos[i], self.potencia)

\* C18 as stated: for every digit sequence the decoded block is the sum of
\* the digits at their positions, shifted (base 2) or weighted (base 5).
PositionalSumAlways ==
    llamada.op = "decodificar_bloque"
        => int2(retorno.valor) = ValorPosicional(codec, llamada.valores)

\* C18: the base-5 decode reconstructs the sum of digit[i] * power^i for
\* every digit sequence, and the base-2 decode reconstructs the sum of
\* digit[i] << (i * w) for every sequence whose digits are all below power.
PositionalSum ==
    (/\ llamada.op = "decodificar_bloque"
     /\ codec.base = 2 => DigitosMenores(codec, llamada.valores))
        => int2(retorno.valor) = ValorPosicional(codec, llamada.valores)

\* two windows of more than one bit, neither of them 0 and both below
\* potencia, were put together by the base-2 decode
PositionalSumWitness ==
    /\ llamada.op = "decodificar_bloque"
    /\ codec.base = 2
    /\ bit_length(codec.potencia) > 2
    /\ Len(llamada.valores) = 2
    /\ DigitosMenores(codec, llamada.valores)
    /\ llamada.valores[1] # Cero
    /\ llamada.valores[2] # Cero
    /\ retorno.valor # Ceros(codec.bits_por_bloque)

\* digit i (from 1) of v in base potencia as the claim writes it, computed
\* where potencia ** (i - 1) is small enough for Cociente
DigitoDirecto(self, v, i) ==
    IF self.base = 2
    THEN And(ShiftR(v, (i - 1) * (bit_length(self.potencia) - 1)),
             Resta(self.potencia, Uno))
    ELSE Residuo(Cociente(v, Potencia(self.potencia, i - 1)), self.potencia)

DigitoCalculable(self, i) ==
    self.base = 2 \/ bit_length(Potencia(self.potencia, i - 1)) <= 20

\* C19: the values a block encodes to are the positional digits of its
\* integer value in base potencia, least significant first: each is the
\* digit the shift-and-mask or divide-and-remainder formula gives, each is
\* below potencia, the most significant one is not 0 unless the value is 0,
\* and the sum of digit[i] * potencia^i over them is the value of the block.
PositionalDigits ==
    llamada.op = "codificar_bloque" =>
        LET v == int2(llamada.bloque)
            d == retorno.valor
        IN  /\ Len(d) >= 1
            /\ DigitosMenores(codec, d)
            /\ \A i \in 1..Len(d) :
                   DigitoCalculable(codec, i) => d[i] = DigitoDirecto(codec, v, i)
            /\ (IF codec.base = 2
                THEN SumaDeVentanas(d, bit_length(codec.potencia) - 1)
                ELSE SumaDeResiduos(d, codec.potencia)) = v
            /\ SumaDeResiduos(d, codec.potencia) = v
            /\ d[Len(d)] = Cero => (v = Cero /\ d = <<Cero>>)

\* a block was encoded by the base-5 codec to three or more digits, the
\* first and the last of them not 0
PositionalDigitsWitness ==
    /\ llamada.op = "codificar_bloque"
    /\ retorno.tipo = "list"
    /\ Len(retorno.valor) >= 3
    /\ retorno.valor[1] # Cero
    /\ retorno.valor[Len(retorno.valor)] # Cero
    /\ codec.base = 5

-----------------------------------------------------------------------------
(* The caller that decodes a stream of its own making: it keeps the         *)
(* configuration the codec recorded, and keeps only some of the blocks or   *)
(* writes another bits_padding below bits_por_bloque.                       *)

\* the values written into bits_padding
PaddingsDePrueba(self) == {0, 1, self.bits_por_bloque - 1}

\* datos_codificados['bloques_codificados'] = ...[:k];
\* datos_codificados['bits_padding'] = bits_padding
Alterar(k, bits_padding) ==
    /\ llamada.op = "codificar"
    /\ k <= Len(datos_codificados.bloques_codificados)
    /\ llamada' = [op |-> "alterar", k |-> k, bits_padding |-> bits_padding]
    /\ datos_codificados' =
           [datos_codificados EXCEPT
               !.bloques_codificados = SubSeq(@, 1, k),
               !.bits_padding = bits_padding]
    /\ retorno' = Ninguno
    /\ decodificados' = Ninguno
    /\ UNCHANGED <<codec, datos_binarios>>

NextFlujo ==
    \/ \E base \in BasesDeUso, potencia \in PotenciasDeSesion :
           codec = Ninguno /\ Construir(base, potencia, BITS_MINIMO)
    \/ \E datos \in CadenasDeSesion, tiempo \in Tiempos : Codificar(datos, tiempo)
    \/ /\ codec # Ninguno
       /\ \E k \in 0..2, bits_padding \in PaddingsDePrueba(codec) :
              Alterar(k, bits_padding)
    \/ llamada.op \in {"codificar", "alterar"} /\ Decodificar

SpecFlujo == Init /\ [][NextFlujo]_vars

\* what is left of the concatenation of the decoded blocks when the last
\* bits_padding bits are removed
SinRelleno(dc, bloques) ==
    SubSeq(join(bloques), 1, Len(join(bloques)) - dc.bits_padding)

\* C20 as stated: for every stream that records the configuration of the
\* codec, the result is the concatenation of the decoded blocks without its
\* last bits_padding bits, so bits_padding bits shorter than it, and the
\* whole concatenation when bits_padding is 0.
DecodeStripsAlways ==
    (llamada.op = "decodificar" /\ retorno.tipo = "str") =>
        /\ retorno.valor = SinRelleno(datos_codificados, decodificados.valor)
        /\ Len(retorno.valor)
               = Len(join(decodificados.valor)) - datos_codificados.bits_padding
        /\ datos_codificados.bits_padding = 0
               => retorno.valor = join(decodificados.valor)

\* C20: for every stream that records the configuration of the codec and
\* has at least one block or bits_padding 0, the result is the concatenation
\* of the decoded blocks without its last bits_padding bits, bits_padding
\* bits shorter than it, and the whole of it when bits_padding is 0; for a
\* stream without blocks the result is empty whatever bits_padding is.
DecodeStrips ==
    (llamada.op = "decodificar" /\ retorno.tipo = "str") =>
        /\ (datos_codificados.bloques_codificados # <<>>
                \/ datos_codificados.bits_padding = 0)
               => /\ retorno.valor
                         = SinRelleno(datos_codificados, decodificados.valor)
                  /\ Len(retorno.valor) = Len(join(decodificados.valor))
                                              - datos_codificados.bits_padding
                  /\ datos_codificados.bits_padding = 0
                         => retorno.valor = join(decodificados.valor)
        /\ datos_codificados.bloques_codificados = <<>> => retorno.valor = <<>>

\* a stream of two blocks was decoded and bits_padding bits, one or more,
\* were removed from blocks that are not all zeros
DecodeStripsWitness ==
    /\ llamada.op = "decodificar"
    /\ retorno.tipo = "str"
    /\ Len(datos_codificados.bloques_codificados) = 2
    /\ datos_codificados.bits_padding > 0
    /\ Len(retorno.valor) = 2 * codec.bits_por_bloque - datos_codificados.bits_padding
    /\ \E i \in 1..Len(retorno.valor) : retorno.valor[i] = 1

-----------------------------------------------------------------------------
(* The record codificar returns *)

\* C21: the record codificar returns holds the base, potencia and
\* bits_por_bloque of the codec, the number of encoded blocks as num_bloques,
\* the length of the input as bits_originales and the padding of the
\* segmentation as bits_padding, so that
\* num_bloques * bits_por_bloque = bits_originales + bits_padding.
StreamMetadata ==
    (llamada.op = "codificar" /\ retorno.tipo = "dict") =>
        /\ retorno.base = codec.base
        /\ retorno.potencia = codec.potencia
        /\ retorno.bits_por_bloque = codec.bits_por_bloque
        /\ retorno.num_bloques = Len(retorno.bloques_codificados)
        /\ retorno.bits_originales = Len(llamada.datos)
        /\ retorno.bits_padding = binario_a_bloques(codec, llamada.datos)[2]
        /\ retorno.num_bloques * retorno.bits_por_bloque
               = retorno.bits_originales + retorno.bits_padding

\* an input that is not a whole number of blocks was encoded into two or
\* more blocks, the last one padded
StreamMetadataWitness ==
    /\ llamada.op = "codificar"
    /\ retorno.tipo = "dict"
    /\ retorno.num_bloques >= 2
    /\ retorno.bits_padding > 0
    /\ Len(llamada.datos) % codec.bits_por_bloque # 0

\* C22: the encoded blocks are as many as the blocks of the segmentation,
\* and the i-th of them is what codificar_bloque_base2 (when base is 2) or
\* codificar_bloque_base5 (when base is 5) returns for the i-th block.
BlocksInOrder ==
    (llamada.op = "codificar" /\ retorno.tipo = "dict") =>
        LET bloques == binario_a_bloques(codec, llamada.datos)[1]
            codificados == retorno.bloques_codificados
        IN  /\ Len(codificados) = Len(bloques)
            /\ \A i \in 1..Len(bloques) :
                   /\ codec.base = 2
                          => codificados[i] = codificar_bloque_base2(codec, bloques[i])
                   /\ codec.base = 5
                          => codificados[i] = codificar_bloque_base5(codec, bloques[i])
            /\ codec.base \in {2, 5}

\* an input of two or more blocks was encoded, and its first and last
\* encoded blocks differ
BlocksInOrderWitness ==
    /\ llamada.op = "codificar"
    /\ retorno.tipo = "dict"
    /\ Len(retorno.bloques_codificados) >= 2
    /\ retorno.bloques_codificados[1]
           # retorno.bloques_codificados[Len(retorno.bloques_codificados)]

\* C23: the values a block encodes to are never an empty list, each is below
\* potencia, and the last one is 0 only in the list [0]; under the base-2
\* codec a block of bits_por_bloque bits gives at most
\* ceil(bits_por_bloque / w) windows, w being the window width, and exactly
\* one when w >= bits_por_bloque.
CanonicalDigits ==
    (llamada.op = "codificar_bloque" /\ retorno.tipo = "list") =>
        LET d == retorno.valor
            n == codec.bits_por_bloque
            w == bit_length(codec.potencia) - 1
        IN  /\ d # <<>>
            /\ \A i \in 1..Len(d) : Menor(d[i], codec.potencia)
            /\ d[Len(d)] = Cero => d = <<Cero>>
            /\ codec.base = 2 => Len(d) <= Techo(n, w)
            /\ (codec.base = 2 /\ w >= n) => Len(d) = 1

\* a block that is not all zeros was encoded by the base-2 codec with a
\* window at least as wide as the block, into one value
CanonicalDigitsWitness ==
    /\ llamada.op = "codificar_bloque"
    /\ retorno.tipo = "list"
    /\ codec.base = 2
    /\ bit_length(codec.potencia) - 1 >= codec.bits_por_bloque
    /\ retorno.valor # <<Cero>>
    /\ Len(retorno.valor) = 1

-----------------------------------------------------------------------------
(* The digest of a bit string and of the same string with zeros after it *)

\* t is s followed by one or more zeros, and both fill the same number of bytes
ConCerosFinales(s, t) ==
    /\ Len(s) > 0
    /\ Len(t) > Len(s)
    /\ t = s \o Ceros(Len(t) - Len(s))
    /\ Techo(Len(s), 8) = Techo(Len(t), 8)

\* C24: for a non-empty bit string s and t, s followed by one or more zeros
\* within the same number of bytes, calcular_sha256 gives both the same
\* digest, so verificar_integridad returns with coinciden_hash true,
\* coinciden_bits false and the result false; and for every pair of strings
\* not both empty the result is true exactly when the two strings are equal.
HashIgnoresPadding ==
    llamada.op = "verificar" =>
        LET s == llamada.original
            t == llamada.decodificado
        IN  /\ ConCerosFinales(s, t)
                   => /\ calcular_sha256(s) = calcular_sha256(t)
                      /\ retorno.tipo = "bool"
                      /\ retorno.coinciden_hash
                      /\ ~retorno.coinciden_bits
                      /\ ~retorno.valor
            /\ (Len(s) > 0 \/ Len(t) > 0)
                   => ((retorno.tipo = "bool" /\ retorno.valor) <=> s = t)

\* a string that has a 1 in it was verified against itself followed by two
\* or more zeros, and the digests agreed
HashIgnoresPaddingWitness ==
    /\ llamada.op = "verificar"
    /\ ConCerosFinales(llamada.original, llamada.decodificado)
    /\ Len(llamada.decodificado) >= Len(llamada.original) + 2
    /\ \E i \in 1..Len(llamada.original) : llamada.original[i] = 1
    /\ retorno.tipo = "bool"
    /\ retorno.coinciden_hash

-----------------------------------------------------------------------------
(* The caller that decodes the stream codificar returned and then a copy of *)
(* it in which num_bloques or bits_originales, or both, hold other values.  *)

\* the values written into num_bloques and into bits_originales: none, the
\* recorded one, one more
CamposDePrueba(n) == {0, n, n + 1}

\* copia = dict(datos_codificados); copia['num_bloques'] = num_bloques;
\* copia['bits_originales'] = bits_originales; codec.decodificar(copia),
\* after codec.decodificar(datos_codificados) returned llamada.anterior
DecodificarCambiado(num_bloques, bits_originales) ==
    /\ codec # Ninguno
    /\ llamada.op = "decodificar"
    /\ <<num_bloques, bits_originales>>
           # <<datos_codificados.num_bloques, datos_codificados.bits_originales>>
    /\ LET copia == [datos_codificados EXCEPT !.num_bloques = num_bloques,
                                               !.bits_originales = bits_originales]
       IN  /\ llamada' = [op |-> "decodificar_cambiado", datos |-> copia,
                          anterior |-> retorno]
           /\ retorno' = decodificar(codec, copia)
           /\ decodificados' = bloques_decodificados(codec, copia)
    /\ UNCHANGED <<codec, datos_binarios, datos_codificados>>

NextCampos ==
    \/ \E base \in BasesDeUso, potencia \in PotenciasDeSesion :
           codec = Ninguno /\ Construir(base, potencia, BITS_MINIMO)
    \/ \E datos \in CadenasDeSesion, tiempo \in Tiempos : Codificar(datos, tiempo)
    \/ DecodificarPropio
    \/ /\ codec # Ninguno
       /\ llamada.op = "decodificar"
       /\ \E num_bloques \in CamposDePrueba(datos_codificados.num_bloques),
             bits_originales \in CamposDePrueba(datos_codificados.bits_originales) :
              DecodificarCambiado(num_bloques, bits_originales)

SpecCampos == Init /\ [][NextCampos]_vars

\* C25: a stream that agrees with another in base, potencia,
\* bits_por_bloque, bloques_codificados and bits_padding, and differs from it
\* in num_bloques or in bits_originales, decodes to the same bit string: it
\* is not refused, whatever the two fields say of the blocks present.
DecodeIgnoresCounts ==
    llamada.op = "decodificar_cambiado" =>
        /\ llamada.datos.bloques_codificados = datos_codificados.bloques_codificados
        /\ llamada.datos.bits_padding = datos_codificados.bits_padding
        /\ retorno.tipo = "str"
        /\ retorno = llamada.anterior
        /\ retorno.valor = datos_binarios.valor

\* a stream of two blocks, the second padded, was decoded with num_bloques 0
\* and one bit more in bits_originales, and the bit string came back
DecodeIgnoresCountsWitness ==
    /\ llamada.op = "decodificar_cambiado"
    /\ Len(llamada.datos.bloques_codificados) = 2
    /\ llamada.datos.bits_padding > 0
    /\ llamada.datos.num_bloques = 0
    /\ llamada.datos.bits_originales = datos_codificados.bits_originales + 1
    /\ retorno.tipo = "str"
    /\ Len(retorno.valor) = datos_codificados.bits_originales
    /\ \E i \in 1..Len(retorno.valor) : retorno.valor[i] = 1

=============================================================================
